---- MODULE Spec2Model ----
(***************************************************************************)
(* Built-in signals of udsp (src/udsp/signal/builtin.py).                  *)
(*                                                                         *)
(* Every constructor and from_file class method is a straight-line (or     *)
(* one-loop) sequence of Python statements.  Each body is written down as  *)
(* a sequence of statements in source order, and one action per statement  *)
(* kind executes the statement under the program counter of the topmost    *)
(* frame.  The per-class evaluators (_generate) are operators.             *)
(*                                                                         *)
(* Numbers: parameters and coordinates are integers.  Halves are removed   *)
(* by doubling both sides of a comparison; round() is Python 3's round to  *)
(* nearest with ties to even, computed on exact fractions.  exp() and      *)
(* sin() are not evaluated: a sample of those signals is the record of the *)
(* factor and of the argument handed to the function.                      *)
(***************************************************************************)
EXTENDS Integers, Sequences, FiniteSets, TLC

\* ------------------------------------------------------------------
\*  Bounds
\* ------------------------------------------------------------------
MaxLen == 2
MaxRows == 2
MaxCols == 2
MaxChannels == 3
MaxSamples == 2
MaxPlanes == 5
MaxImgRows == 1
MaxImgCols == 2

\* ------------------------------------------------------------------
\*  Python values
\* ------------------------------------------------------------------
\* None and a present value are told apart by length, so that they are
\* never compared element by element.
None == <<>>

Some(v) == <<v>>

IsNone(o) == Len(o) = 0

Val(o) == o[1]

\* an object's __dict__ : attribute name -> value
EmptyDict == [n \in {} |-> None]

SetItem(d, name, v) == (name :> v) @@ d

\* round(num / den) for den > 0 : nearest integer, an exact half goes to
\* the even neighbour (Python 3 built-in round on a float)
PyRound(num, den) ==
    LET q == num \div den
        r == num % den
    IN  IF 2 * r < den THEN q
        ELSE IF 2 * r > den THEN q + 1
        ELSE IF q % 2 = 0 THEN q ELSE q + 1

\* ------------------------------------------------------------------
\*  Domains handed to the evaluators by the base classes
\* ------------------------------------------------------------------
\* 1-D axis of N ordered positions
Axis(N) == [n \in 1..N |-> n - 1]

\* 2-D grid : cell (n, m) holds the coordinate pair (vertical, horizontal)
Grid(R, C) == [n \in 1..R |-> [m \in 1..C |-> <<n - 1, m - 1>>]]

Axes == {Axis(N) : N \in 0..MaxLen}

Grids == {Grid(R, C) : R \in 0..MaxRows, C \in 0..MaxCols}

\* ------------------------------------------------------------------
\*  Decoded media (core.media) : the content of the file behind `path`,
\*  at least one channel or plane
\* ------------------------------------------------------------------
FrameBase == <<4, 5, -5, -6, 3>>

FrameStep == <<1, 1, 1, 1, 4>>

FrameKinds == 1..5

\* sample of channel c in a frame of kind j
FrameSample(j, c) == FrameBase[j] + FrameStep[j] * (c - 1)

FrameSeqs == UNION {[1..L -> FrameKinds] : L \in 0..MaxSamples}

AudioFiles ==
    {[kind |-> "audio",
      channels |-> [c \in 1..K |-> [n \in 1..Len(fr) |-> FrameSample(fr[n], c)]],
      bps |-> b] : K \in 1..MaxChannels, fr \in FrameSeqs, b \in {8, 16}}

Colours == 0..2

\* value of plane p in a pixel of colour j
PixelVal(j, p) == 10 * (((p - 1 + j) % 5) + 1)

ColourGrids ==
    UNION {[1..R -> [1..C -> Colours]] : R \in 1..MaxImgRows, C \in 1..MaxImgCols}

ImageFiles ==
    {[kind |-> "image",
      planes |-> [p \in 1..K |->
                    [n \in 1..Len(cg) |->
                       [m \in 1..Len(cg[n]) |-> PixelVal(cg[n][m], p)]]]]
       : K \in 1..MaxPlanes, cg \in ColourGrids}

NoFile == [kind |-> "none"]

\* ------------------------------------------------------------------
\*  RNGMixin
\* ------------------------------------------------------------------
dist == {"uniform", "normal", "lorentz", "laplace"}

\* values a sampling primitive may return
Samples == {0, 1}

\* ------------------------------------------------------------------
\*  Container primitives (core.mtx)
\* ------------------------------------------------------------------
\* The function handed to a primitive is a TLA+ function over the
\* arguments the primitive calls it with.

\* vec_new(length, f) : f evaluated at every index 0..length-1
vec_new(length, f) == [n \in 1..length |-> f[n]]

\* mat_new(rows, cols, f) : f evaluated at every index pair
mat_new(rows, cols, f) == [n \in 1..rows |-> [m \in 1..cols |-> f[n, m]]]

\* vec_compose(vectors, f) : f applied across two vectors, sample by sample
vec_compose(vectors, f) ==
    [n \in 1..Len(vectors[1]) |-> f[vectors[1][n], vectors[2][n]]]

\* mat_compose(matrices, f) : f applied across three planes, pixel by pixel
mat_compose(matrices, f) ==
    [n \in 1..Len(matrices[1]) |->
       [m \in 1..Len(matrices[1][n]) |->
          f[matrices[1][n][m], matrices[2][n][m], matrices[3][n][m]]]]

\* the samples of a vector, the pixels of a matrix
VecValues(v) == {v[n] : n \in 1..Len(v)}

MatValues(mat) == UNION {VecValues(mat[n]) : n \in 1..Len(mat)}

\* the indices of a sequence, the index pairs of a grid
Idx(x) == 1..Len(x)

Cols(x) == 1..Len(x[1])

\* ------------------------------------------------------------------
\*  Outcome of one call of an evaluator
\* ------------------------------------------------------------------
\* exc    : "" or the name of the exception raised
\* signal : the value returned
\* dict   : the instance's attributes after the call
\* loads  : number of load() calls made on the decoder
Ok(sig, d, nloads) == [exc |-> "", signal |-> sig, dict |-> d, loads |-> nloads]

Raise(name, d, nloads) == [exc |-> name, signal |-> <<>>, dict |-> d, loads |-> nloads]

\* ------------------------------------------------------------------
\*  1-D evaluators
\* ------------------------------------------------------------------
Const1D_generate(d, x) ==
    LET f == [n \in Idx(x) |-> d["k"]]
    IN  Ok(vec_new(Len(x), f), d, 0)

Pulse1D_generate(d, x) ==
    LET \* x1, x2 = xo - w/2, xo + w/2, both doubled
        x1 == 2 * d["xo"] - d["w"]
        x2 == 2 * d["xo"] + d["w"]
        f == [n \in Idx(x) |->
                IF x1 <= 2 * x[n] /\ 2 * x[n] <= x2 THEN d["a"] ELSE 0]
    IN  Ok(vec_new(Len(x), f), d, 0)

\* a sample is k * exp(num / den)
Gaussian1D_generate(d, x) ==
    LET f == [n \in Idx(x) |->
                [k |-> d["k"],
                 num |-> 0 - (x[n] - d["u"]) * (x[n] - d["u"]),
                 den |-> 2 * d["s"] * d["s"]]]
    IN  IF Len(x) > 0 /\ d["s"] = 0
        THEN Raise("ZeroDivisionError", d, 0)
        ELSE Ok(vec_new(Len(x), f), d, 0)

\* a sample is a * sin(2 pi fx + p)
Sinewave1D_generate(d, x) ==
    LET f == [n \in Idx(x) |->
                [a |-> d["a"], fx |-> d["f"] * x[n], p |-> d["p"]]]
    IN  Ok(vec_new(Len(x), f), d, 0)

\* a sample is a / (1 + exp(arg))
Logistic1D_generate(d, x) ==
    LET f == [n \in Idx(x) |->
                [a |-> d["a"], arg |-> 0 - d["k"] * (x[n] - d["xo"])]]
    IN  Ok(vec_new(Len(x), f), d, 0)

\* rnd : the draws of the sampling primitive, one per index
Noise1D_generate(d, x, rnd) ==
    LET f == [n \in Idx(x) |-> rnd[n]]
    IN  IF Len(x) > 0 /\ d["pdf"] \notin dist
        THEN Raise("KeyError", d, 0)
        ELSE Ok(vec_new(Len(x), f), d, 0)

\* variant : an exact half is rounded up instead of to the even integer
MonoAudio_generate_halfup(d, file) ==
    LET chans == file.channels
        mix == [l \in VecValues(chans[1]), r \in VecValues(chans[2]) |->
                  (l + r + 1) \div 2]
    IN  IF IsNone(d["_audio"])
        THEN Raise("AttributeError", d, 0)
        ELSE IF Len(chans) = 1
        THEN Ok(chans[1], SetItem(d, "_audio", None), 1)
        ELSE IF Len(chans) = 2
        THEN Ok(vec_compose(chans, mix), SetItem(d, "_audio", None), 1)
        ELSE Raise("RuntimeError", d, 1)

\* variant : the reference to the source is kept after the downmix
MonoAudio_generate_keep(d, file) ==
    LET chans == file.channels
        mix == [l \in VecValues(chans[1]), r \in VecValues(chans[2]) |->
                  PyRound(l + r, 2)]
    IN  IF IsNone(d["_audio"])
        THEN Raise("AttributeError", d, 0)
        ELSE IF Len(chans) = 1
        THEN Ok(chans[1], d, 1)
        ELSE IF Len(chans) = 2
        THEN Ok(vec_compose(chans, mix), d, 1)
        ELSE Raise("RuntimeError", d, 1)

MonoAudio_generate(d, file) ==
    LET chans == file.channels
        mix == [l \in VecValues(chans[1]), r \in VecValues(chans[2]) |->
                  PyRound(l + r, 2)]
    IN  IF IsNone(d["_audio"])
        THEN Raise("AttributeError", d, 0)
        ELSE IF Len(chans) = 1
        THEN Ok(chans[1], SetItem(d, "_audio", None), 1)
        ELSE IF Len(chans) = 2
        THEN Ok(vec_compose(chans, mix), SetItem(d, "_audio", None), 1)
        ELSE Raise("RuntimeError", d, 1)

\* variant : every channel instance takes the first channel
AudioChannel_generate_first(d, clsd) ==
    LET holder == IF "_audio" \in DOMAIN d THEN d["_audio"] ELSE clsd["_audio"]
    IN  IF IsNone(holder) \/ IsNone(d["_id"])
        THEN Raise("TypeError", d, 0)
        ELSE IF Val(d["_id"]) >= Len(Val(holder))
        THEN Raise("IndexError", d, 0)
        ELSE Ok(Val(holder)[1], d, 0)

\* self._audio is found on the class, self._id on the instance
AudioChannel_generate(d, clsd) ==
    LET holder == IF "_audio" \in DOMAIN d THEN d["_audio"] ELSE clsd["_audio"]
    IN  IF IsNone(holder) \/ IsNone(d["_id"])
        THEN Raise("TypeError", d, 0)
        ELSE IF Val(d["_id"]) >= Len(Val(holder))
        THEN Raise("IndexError", d, 0)
        ELSE Ok(Val(holder)[Val(d["_id"]) + 1], d, 0)

\* ------------------------------------------------------------------
\*  2-D evaluators
\* ------------------------------------------------------------------
Const2D_generate(d, x) ==
    LET f == [n \in Idx(x), m \in Cols(x) |-> d["k"]]
    IN  IF Len(x) = 0
        THEN Raise("IndexError", d, 0)
        ELSE Ok(mat_new(Len(x), Len(x[1]), f), d, 0)

Pulse2D_generate(d, x) ==
    LET \* all four bounds doubled
        x1 == 2 * d["xo"][1] - d["w"][1]
        x2 == 2 * d["xo"][1] + d["w"][1]
        y1 == 2 * d["xo"][2] - d["w"][2]
        y2 == 2 * d["xo"][2] + d["w"][2]
        inbox(p) == (y1 <= 2 * p[1] /\ 2 * p[1] <= y2)
                    /\ (x1 <= 2 * p[2] /\ 2 * p[2] <= x2)
        f == [n \in Idx(x), m \in Cols(x) |->
                IF inbox(x[n][m]) THEN d["a"] ELSE 0]
    IN  IF Len(x) = 0
        THEN Raise("IndexError", d, 0)
        ELSE Ok(mat_new(Len(x), Len(x[1]), f), d, 0)

\* a sample is k * exp(num / den), the two fractions brought to one
\* denominator
Gaussian2D_generate(d, x) ==
    LET s0 == d["s"][1] * d["s"][1]
        s1 == d["s"][2] * d["s"][2]
        d0(n, m) == (x[n][m][1] - d["u"][1]) * (x[n][m][1] - d["u"][1])
        d1(n, m) == (x[n][m][2] - d["u"][2]) * (x[n][m][2] - d["u"][2])
        f == [n \in Idx(x), m \in Cols(x) |->
                [k |-> d["k"],
                 num |-> 0 - d0(n, m) * s1 - d1(n, m) * s0,
                 den |-> 2 * s0 * s1]]
    IN  IF Len(x) = 0
        THEN Raise("IndexError", d, 0)
        ELSE IF Len(x[1]) > 0 /\ (s0 = 0 \/ s1 = 0)
        THEN Raise("ZeroDivisionError", d, 0)
        ELSE Ok(mat_new(Len(x), Len(x[1]), f), d, 0)

Noise2D_generate(d, x, rnd) ==
    LET f == [n \in Idx(x), m \in Cols(x) |-> rnd[n][m]]
    IN  IF Len(x) = 0
        THEN Raise("IndexError", d, 0)
        ELSE IF Len(x[1]) > 0 /\ d["pdf"] \notin dist
        THEN Raise("KeyError", d, 0)
        ELSE Ok(mat_new(Len(x), Len(x[1]), f), d, 0)

\* variant : the weighted sum is truncated instead of rounded
GrayImage_generate_trunc(d, file) ==
    LET planes == file.planes
        cplanes == IF Len(planes) = 3 THEN planes ELSE SubSeq(planes, 1, 3)
        luma == [r \in MatValues(cplanes[1]), g \in MatValues(cplanes[2]),
                 b \in MatValues(cplanes[3]) |->
                   (2126 * r + 7152 * g + 722 * b) \div 10000]
    IN  IF IsNone(d["_image"])
        THEN Raise("AttributeError", d, 0)
        ELSE IF Len(planes) \in {1, 2}
        THEN Ok(planes[1], SetItem(d, "_image", None), 1)
        ELSE IF Len(planes) \in {3, 4}
        THEN Ok(mat_compose(cplanes, luma), SetItem(d, "_image", None), 1)
        ELSE Raise("RuntimeError", d, 1)

\* variant : of four planes the last three are fused, alpha included
GrayImage_generate_alpha(d, file) ==
    LET planes == file.planes
        cplanes == IF Len(planes) = 3 THEN planes ELSE SubSeq(planes, 2, 4)
        luma == [r \in MatValues(cplanes[1]), g \in MatValues(cplanes[2]),
                 b \in MatValues(cplanes[3]) |->
                   PyRound(2126 * r + 7152 * g + 722 * b, 10000)]
    IN  IF IsNone(d["_image"])
        THEN Raise("AttributeError", d, 0)
        ELSE IF Len(planes) \in {1, 2}
        THEN Ok(planes[1], SetItem(d, "_image", None), 1)
        ELSE IF Len(planes) \in {3, 4}
        THEN Ok(mat_compose(cplanes, luma), SetItem(d, "_image", None), 1)
        ELSE Raise("RuntimeError", d, 1)

GrayImage_generate(d, file) ==
    LET planes == file.planes
        cplanes == IF Len(planes) = 3 THEN planes ELSE SubSeq(planes, 1, 3)
        luma == [r \in MatValues(cplanes[1]), g \in MatValues(cplanes[2]),
                 b \in MatValues(cplanes[3]) |->
                   PyRound(2126 * r + 7152 * g + 722 * b, 10000)]
    IN  IF IsNone(d["_image"])
        THEN Raise("AttributeError", d, 0)
        ELSE IF Len(planes) \in {1, 2}
        THEN Ok(planes[1], SetItem(d, "_image", None), 1)
        ELSE IF Len(planes) \in {3, 4}
        THEN Ok(mat_compose(cplanes, luma), SetItem(d, "_image", None), 1)
        ELSE Raise("RuntimeError", d, 1)

ImageChannel_generate(d, clsd) ==
    LET holder == IF "_image" \in DOMAIN d THEN d["_image"] ELSE clsd["_image"]
    IN  IF IsNone(holder) \/ IsNone(d["_id"])
        THEN Raise("TypeError", d, 0)
        ELSE IF Val(d["_id"]) >= Len(Val(holder))
        THEN Raise("IndexError", d, 0)
        ELSE Ok(Val(holder)[Val(d["_id"]) + 1], d, 0)

\* ------------------------------------------------------------------
\*  Statements
\* ------------------------------------------------------------------
\* op     : the kind of statement
\* field  : the attribute it writes or iterates over ("" if none)
\* src    : where the value written comes from ("" if none)
Stmt(op, field, src) == [op |-> op, field |-> field, src |-> src]

\* super().__init__(...)
Super == Stmt("super", "", "")

\* self.<field> = <field>
Arg(field) == Stmt("setattr", field, "arg")

\* self.make() / channel.make()
MakeStmt == Stmt("make", "", "")

\* audio = _media.Audio.from_file(path) / image = _media.Image.from_file(path)
DecodeStmt == Stmt("decode", "", "")

\* end of the body
Ret == Stmt("return", "", "")

\* ------------------------------------------------------------------
\*  Bodies of the constructors and of the from_file class methods
\* ------------------------------------------------------------------
Const1D_init == <<Super, Arg("k"), MakeStmt, Ret>>

Pulse1D_init == <<Super, Arg("xo"), Arg("w"), Arg("a"), MakeStmt, Ret>>

Gaussian1D_init == <<Super, Arg("u"), Arg("s"), Arg("k"), MakeStmt, Ret>>

Sinewave1D_init == <<Super, Arg("a"), Arg("f"), Arg("p"), MakeStmt, Ret>>

Logistic1D_init == <<Super, Arg("a"), Arg("k"), Arg("xo"), MakeStmt, Ret>>

Noise1D_init == <<Super, Arg("pdf"), Arg("pdf_params"), MakeStmt, Ret>>

MonoAudio_init ==
    <<DecodeStmt,
      Super,
      Stmt("setattr", "_audio", "local"),
      Stmt("setattr", "_bps", "attr_bps"),
      MakeStmt,
      Ret>>

AudioChannel_init ==
    <<Super,
      Stmt("setattr", "_id", "none"),
      Stmt("setattr", "_bps", "none"),
      Ret>>

AudioChannel_from_file ==
    <<DecodeStmt,
      Stmt("setcls", "_audio", "load"),
      Stmt("for", "_audio", ""),
      Stmt("new", "", ""),
      Stmt("setattr", "_id", "c"),
      Stmt("setattr", "_bps", "local_bps"),
      MakeStmt,
      Stmt("append", "", ""),
      Stmt("endfor", "", ""),
      Stmt("setcls", "_audio", "none"),
      Ret>>

Const2D_init == <<Super, Arg("k"), MakeStmt, Ret>>

Pulse2D_init == <<Super, Arg("xo"), Arg("w"), Arg("a"), MakeStmt, Ret>>

Gaussian2D_init == <<Super, Arg("u"), Arg("s"), Arg("k"), MakeStmt, Ret>>

Noise2D_init == <<Super, Arg("pdf"), Arg("pdf_params"), MakeStmt, Ret>>

GrayImage_init ==
    <<DecodeStmt,
      Super,
      Stmt("setattr", "_image", "decode"),
      MakeStmt,
      Ret>>

ImageChannel_init ==
    <<Super,
      Stmt("setattr", "_id", "none"),
      Ret>>

\* variant : make() is called before the channel id is assigned
ImageChannel_from_file_early ==
    <<DecodeStmt,
      Stmt("setcls", "_image", "load"),
      Stmt("for", "_image", ""),
      Stmt("new", "", ""),
      MakeStmt,
      Stmt("setattr", "_id", "c"),
      Stmt("append", "", ""),
      Stmt("endfor", "", ""),
      Stmt("setcls", "_audio", "none"),
      Ret>>

ImageChannel_from_file ==
    <<DecodeStmt,
      Stmt("setcls", "_image", "load"),
      Stmt("for", "_image", ""),
      Stmt("new", "", ""),
      Stmt("setattr", "_id", "c"),
      MakeStmt,
      Stmt("append", "", ""),
      Stmt("endfor", "", ""),
      Stmt("setcls", "_audio", "none"),
      Ret>>

Classes1D ==
    {"Const1D", "Pulse1D", "Gaussian1D", "Sinewave1D", "Logistic1D", "Noise1D",
     "MonoAudio", "AudioChannel"}

Classes2D ==
    {"Const2D", "Pulse2D", "Gaussian2D", "Noise2D", "GrayImage", "ImageChannel"}

Program(cls, fn) ==
    IF fn = "from_file"
    THEN CASE cls = "AudioChannel" -> AudioChannel_from_file
           [] cls = "ImageChannel" -> ImageChannel_from_file
    ELSE CASE cls = "Const1D" -> Const1D_init
           [] cls = "Pulse1D" -> Pulse1D_init
           [] cls = "Gaussian1D" -> Gaussian1D_init
           [] cls = "Sinewave1D" -> Sinewave1D_init
           [] cls = "Logistic1D" -> Logistic1D_init
           [] cls = "Noise1D" -> Noise1D_init
           [] cls = "MonoAudio" -> MonoAudio_init
           [] cls = "AudioChannel" -> AudioChannel_init
           [] cls = "Const2D" -> Const2D_init
           [] cls = "Pulse2D" -> Pulse2D_init
           [] cls = "Gaussian2D" -> Gaussian2D_init
           [] cls = "Noise2D" -> Noise2D_init
           [] cls = "GrayImage" -> GrayImage_init
           [] cls = "ImageChannel" -> ImageChannel_init

\* the attributes an evaluator reads through self
Reads(cls) ==
    CASE cls \in {"Const1D", "Const2D"} -> {"k"}
      [] cls \in {"Pulse1D", "Pulse2D"} -> {"xo", "w", "a"}
      [] cls \in {"Gaussian1D", "Gaussian2D"} -> {"u", "s", "k"}
      [] cls = "Sinewave1D" -> {"a", "f", "p"}
      [] cls = "Logistic1D" -> {"a", "k", "xo"}
      [] cls \in {"Noise1D", "Noise2D"} -> {"pdf", "pdf_params"}
      [] cls = "MonoAudio" -> {"_audio"}
      [] cls = "AudioChannel" -> {"_audio", "_id"}
      [] cls = "GrayImage" -> {"_image"}
      [] cls = "ImageChannel" -> {"_image", "_id"}

\* those of them the evaluator dereferences, so that None will not do
Derefs(cls) == Reads(cls) \cap {"_audio", "_image", "_id"}

\* ------------------------------------------------------------------
\*  Calls made by the client code
\* ------------------------------------------------------------------
Centres == {0, 1}

Widths == {1, 2}

Devs == {0, 1, 2}

Factors == {1, 2}

Pdfs == dist \cup {"bogus"}

PdfParams == {None, Some("params")}

Pairs(S) == {<<p, q>> : p \in S, q \in S}

\* the domain the base class builds for a decoded file
MediaDomain(file) ==
    IF file.kind = "audio"
    THEN IF Len(file.channels) = 0 THEN Axis(0) ELSE Axis(Len(file.channels[1]))
    ELSE IF Len(file.planes) = 0 THEN Grid(0, 0)
         ELSE Grid(Len(file.planes[1]), Len(file.planes[1][1]))

CallOf(cls, fn, args, x, file) ==
    [cls |-> cls, fn |-> fn, args |-> args, x |-> x, file |-> file]

\* the calls of one class; the sets are kept apart because their
\* arguments and domains are of different shapes
CtorCalls(cls) ==
    CASE cls = "Const1D" ->
           {CallOf(cls, "__init__", [k |-> k], x, NoFile) :
               k \in {0, 3}, x \in Axes}
      [] cls = "Pulse1D" ->
           {CallOf(cls, "__init__", [xo |-> xo, w |-> w, a |-> a], x, NoFile) :
               xo \in Centres, w \in Widths, a \in Factors, x \in Axes}
      [] cls = "Gaussian1D" ->
           {CallOf(cls, "__init__", [u |-> u, s |-> sd, k |-> k], x, NoFile) :
               u \in Centres, sd \in Devs, k \in Factors, x \in Axes}
      [] cls = "Sinewave1D" ->
           {CallOf(cls, "__init__", [a |-> a, f |-> f, p |-> ph], x, NoFile) :
               a \in Factors, f \in Factors, ph \in Centres, x \in Axes}
      [] cls = "Logistic1D" ->
           {CallOf(cls, "__init__", [a |-> a, k |-> k, xo |-> xo], x, NoFile) :
               a \in Factors, k \in Factors, xo \in Centres, x \in Axes}
      [] cls = "Noise1D" ->
           {CallOf(cls, "__init__", [pdf |-> pdf, pdf_params |-> pp], x, NoFile) :
               pdf \in Pdfs, pp \in PdfParams, x \in Axes}
      [] cls = "MonoAudio" ->
           {CallOf(cls, "__init__", <<>>, MediaDomain(file), file) :
               file \in AudioFiles}
      [] cls = "Const2D" ->
           {CallOf(cls, "__init__", [k |-> k], x, NoFile) :
               k \in {0, 3}, x \in Grids}
      [] cls = "Pulse2D" ->
           {CallOf(cls, "__init__", [xo |-> xo, w |-> w, a |-> a], x, NoFile) :
               xo \in Pairs(Centres), w \in Pairs(Widths), a \in Factors, x \in Grids}
      [] cls = "Gaussian2D" ->
           {CallOf(cls, "__init__", [u |-> u, s |-> sd, k |-> k], x, NoFile) :
               u \in Pairs(Centres), sd \in Pairs(Devs), k \in Factors, x \in Grids}
      [] cls = "Noise2D" ->
           {CallOf(cls, "__init__", [pdf |-> pdf, pdf_params |-> pp], x, NoFile) :
               pdf \in Pdfs, pp \in PdfParams, x \in Grids}
      [] cls = "GrayImage" ->
           {CallOf(cls, "__init__", <<>>, MediaDomain(file), file) :
               file \in ImageFiles}

FromFileCalls(cls) ==
    CASE cls = "AudioChannel" ->
           {CallOf(cls, "from_file", <<>>, MediaDomain(file), file) :
               file \in AudioFiles}
      [] cls = "ImageChannel" ->
           {CallOf(cls, "from_file", <<>>, MediaDomain(file), file) :
               file \in ImageFiles}

\* ------------------------------------------------------------------
\*  State
\* ------------------------------------------------------------------
VARIABLES
    pc,                \* "idle", "run", "returned" or "raised"
    call,              \* the call being executed
    stack,             \* frames [cls, fn, ip], the running one last
    self,              \* the instance under construction
    local,             \* the local variable audio / image
    c,                 \* the loop variable of from_file
    channels,          \* the list from_file builds
    AudioChannel_cls,  \* attributes of the class AudioChannel
    ImageChannel_cls,  \* attributes of the class ImageChannel
    loads,             \* calls of load() on a decoder
    decodes,           \* calls of _media.*.from_file(path)
    result,            \* the instances returned
    exc                \* "" or the exception that ended the call

vars ==
    <<pc, call, stack, self, local, c, channels, AudioChannel_cls,
      ImageChannel_cls, loads, decodes, result, exc>>

\* an instance : its class, its __dict__, the domain set up by the base
\* class, the stored signal; makes counts the calls of make() on it and
\* ready records whether its evaluator found every attribute it reads
NoInstance ==
    [cls |-> "", dict |-> EmptyDict, x |-> None, signal |-> None,
     makes |-> 0, ready |-> FALSE]

Fresh(cls) == [NoInstance EXCEPT !.cls = cls]

NoCall == CallOf("", "", <<>>, <<>>, NoFile)

Init ==
    /\ pc = "idle"
    /\ call = NoCall
    /\ stack = <<>>
    /\ self = NoInstance
    /\ local = None
    /\ c = 0
    /\ channels = <<>>
    /\ AudioChannel_cls = SetItem(EmptyDict, "_audio", None)
    /\ ImageChannel_cls = SetItem(EmptyDict, "_image", None)
    /\ loads = 0
    /\ decodes = 0
    /\ result = <<>>
    /\ exc = ""

\* ------------------------------------------------------------------
\*  Helpers of the actions
\* ------------------------------------------------------------------
Top == stack[Len(stack)]

Body == Program(Top.cls, Top.fn)

Cur == Body[Top.ip]

At(op) == pc = "run" /\ Cur.op = op

Goto(ip) == [stack EXCEPT ![Len(stack)].ip = ip]

Advance == Goto(Top.ip + 1)

IndexOf(op) == CHOOSE i \in 1..Len(Body) : Body[i].op = op

\* attributes of the class of the running frame
ClsDict(cls) ==
    CASE cls = "AudioChannel" -> AudioChannel_cls
      [] cls = "ImageChannel" -> ImageChannel_cls
      [] OTHER -> EmptyDict

\* attribute lookup on an instance : its own __dict__, then its class
HasAttr(inst, name) == name \in DOMAIN inst.dict \cup DOMAIN ClsDict(inst.cls)

GetAttr(inst, name) ==
    IF name \in DOMAIN inst.dict THEN inst.dict[name] ELSE ClsDict(inst.cls)[name]

\* every attribute the evaluator reads is there, and those it dereferences
\* are not None
Ready(inst) ==
    /\ \A name \in Reads(inst.cls) : HasAttr(inst, name)
    /\ \A name \in Derefs(inst.cls) : ~IsNone(GetAttr(inst, name))

\* the draws the sampling primitive may deliver during one pass
Draws(inst) ==
    IF IsNone(inst.x) THEN {<<>>}
    ELSE LET x == Val(inst.x)
         IN  CASE inst.cls = "Noise1D" -> [1..Len(x) -> Samples]
               [] inst.cls = "Noise2D" ->
                    IF Len(x) = 0 THEN {<<>>}
                    ELSE [1..Len(x) -> [1..Len(x[1]) -> Samples]]
               [] OTHER -> {<<>>}

\* self._generate(x)
Generate(inst, rnd) ==
    LET d == inst.dict
        x == Val(inst.x)
        cls == inst.cls
    IN  IF \E name \in Reads(cls) : ~HasAttr(inst, name)
        THEN Raise("AttributeError", d, 0)
        ELSE CASE cls = "Const1D" -> Const1D_generate(d, x)
               [] cls = "Pulse1D" -> Pulse1D_generate(d, x)
               [] cls = "Gaussian1D" -> Gaussian1D_generate(d, x)
               [] cls = "Sinewave1D" -> Sinewave1D_generate(d, x)
               [] cls = "Logistic1D" -> Logistic1D_generate(d, x)
               [] cls = "Noise1D" -> Noise1D_generate(d, x, rnd)
               [] cls = "MonoAudio" -> MonoAudio_generate(d, call.file)
               [] cls = "AudioChannel" -> AudioChannel_generate(d, AudioChannel_cls)
               [] cls = "Const2D" -> Const2D_generate(d, x)
               [] cls = "Pulse2D" -> Pulse2D_generate(d, x)
               [] cls = "Gaussian2D" -> Gaussian2D_generate(d, x)
               [] cls = "Noise2D" -> Noise2D_generate(d, x, rnd)
               [] cls = "GrayImage" -> GrayImage_generate(d, call.file)
               [] cls = "ImageChannel" -> ImageChannel_generate(d, ImageChannel_cls)

\* make() of the base class : one pass of the evaluator over the domain,
\* the sequence or grid it returns is stored as the signal
make(inst, rnd) ==
    LET r == IF IsNone(inst.x)
             THEN Raise("AttributeError", inst.dict, 0)
             ELSE Generate(inst, rnd)
    IN  [inst |-> [inst EXCEPT !.dict = r.dict,
                               !.signal = IF r.exc = "" THEN Some(r.signal) ELSE @,
                               !.makes = @ + 1,
                               !.ready = Ready(inst)],
         exc |-> r.exc,
         loads |-> r.loads]

\* ------------------------------------------------------------------
\*  Actions : the call, then one action per kind of statement
\* ------------------------------------------------------------------
\* the client calls Cls(...) or Cls.from_file(path)
Call ==
    /\ pc = "idle"
    /\ \E cls \in Classes1D \cup Classes2D :
       \E k \in IF cls \in {"AudioChannel", "ImageChannel"}
                THEN FromFileCalls(cls) ELSE CtorCalls(cls) :
        /\ call' = k
        /\ stack' = <<[cls |-> k.cls, fn |-> k.fn, ip |-> 1]>>
        /\ self' = IF k.fn = "__init__" THEN Fresh(k.cls) ELSE NoInstance
    /\ pc' = "run"
    /\ UNCHANGED <<local, c, channels, AudioChannel_cls, ImageChannel_cls,
                   loads, decodes, result, exc>>

\* audio = _media.Audio.from_file(path)
Decode ==
    /\ At("decode")
    /\ local' = Some(call.file.kind)
    /\ decodes' = decodes + 1
    /\ stack' = Advance
    /\ UNCHANGED <<pc, call, self, c, channels, AudioChannel_cls,
                   ImageChannel_cls, loads, result, exc>>

\* super().__init__(...) : the base class sets up the domain
SuperInit ==
    /\ At("super")
    /\ self' = [self EXCEPT !.x = Some(call.x)]
    /\ stack' = Advance
    /\ UNCHANGED <<pc, call, local, c, channels, AudioChannel_cls,
                   ImageChannel_cls, loads, decodes, result, exc>>

\* the right-hand side of an assignment to an attribute
Rhs(src, field) ==
    CASE src = "arg" -> call.args[field]
      [] src = "local" -> local
      [] src = "none" -> None
      [] src = "c" -> Some(c)
      [] src = "decode" -> Some(call.file.kind)
      [] src \in {"attr_bps", "local_bps"} -> Some(call.file.bps)

\* self.<field> = ... / channel.<field> = ...
SetAttr ==
    /\ At("setattr")
    /\ IF Cur.src = "attr_bps"
          /\ ("_audio" \notin DOMAIN self.dict \/ IsNone(self.dict["_audio"]))
       THEN /\ pc' = "raised"
            /\ exc' = "AttributeError"
            /\ UNCHANGED <<self, stack>>
       ELSE /\ self' = [self EXCEPT !.dict = SetItem(@, Cur.field, Rhs(Cur.src, Cur.field))]
            /\ stack' = Advance
            /\ UNCHANGED <<pc, exc>>
    /\ decodes' = IF Cur.src = "decode" THEN decodes + 1 ELSE decodes
    /\ UNCHANGED <<call, local, c, channels, AudioChannel_cls,
                   ImageChannel_cls, loads, result>>

\* cls.<field> = audio.load() / cls.<field> = None
SetClsAttr ==
    /\ At("setcls")
    /\ LET v == IF Cur.src = "load"
                THEN Some(IF call.file.kind = "audio"
                          THEN call.file.channels ELSE call.file.planes)
                ELSE None
       IN  IF Top.cls = "AudioChannel"
           THEN /\ AudioChannel_cls' = SetItem(AudioChannel_cls, Cur.field, v)
                /\ UNCHANGED ImageChannel_cls
           ELSE /\ ImageChannel_cls' = SetItem(ImageChannel_cls, Cur.field, v)
                /\ UNCHANGED AudioChannel_cls
    /\ loads' = IF Cur.src = "load" THEN loads + 1 ELSE loads
    /\ stack' = Advance
    /\ UNCHANGED <<pc, call, self, local, c, channels, decodes, result, exc>>

\* for c, _ in enumerate(cls.<field>):
For ==
    /\ At("for")
    /\ LET holder == ClsDict(Top.cls)[Cur.field]
       IN  IF IsNone(holder)
           THEN /\ pc' = "raised"
                /\ exc' = "TypeError"
                /\ UNCHANGED stack
           ELSE /\ stack' = IF c < Len(Val(holder))
                            THEN Advance
                            ELSE Goto(IndexOf("endfor") + 1)
                /\ UNCHANGED <<pc, exc>>
    /\ UNCHANGED <<call, self, local, c, channels, AudioChannel_cls,
                   ImageChannel_cls, loads, decodes, result>>

\* channel = cls(...) : enters __init__ on a new instance
New ==
    /\ At("new")
    /\ self' = Fresh(Top.cls)
    /\ stack' = Append(stack, [cls |-> Top.cls, fn |-> "__init__", ip |-> 1])
    /\ UNCHANGED <<pc, call, local, c, channels, AudioChannel_cls,
                   ImageChannel_cls, loads, decodes, result, exc>>

\* self.make() / channel.make()
Make ==
    /\ At("make")
    /\ \E rnd \in Draws(self) :
        LET m == make(self, rnd)
        IN  /\ self' = m.inst
            /\ loads' = loads + m.loads
            /\ IF m.exc = ""
               THEN /\ stack' = Advance
                    /\ UNCHANGED <<pc, exc>>
               ELSE /\ pc' = "raised"
                    /\ exc' = m.exc
                    /\ UNCHANGED stack
    /\ UNCHANGED <<call, local, c, channels, AudioChannel_cls,
                   ImageChannel_cls, decodes, result>>

\* channels.append(channel)
AppendChannel ==
    /\ At("append")
    /\ channels' = Append(channels, self)
    /\ stack' = Advance
    /\ UNCHANGED <<pc, call, self, local, c, AudioChannel_cls,
                   ImageChannel_cls, loads, decodes, result, exc>>

\* end of the loop body : next index
EndFor ==
    /\ At("endfor")
    /\ c' = c + 1
    /\ stack' = Goto(IndexOf("for"))
    /\ UNCHANGED <<pc, call, self, local, channels, AudioChannel_cls,
                   ImageChannel_cls, loads, decodes, result, exc>>

\* __init__ called from from_file hands the instance back to it
ReturnToCaller ==
    /\ At("return")
    /\ Len(stack) > 1
    /\ stack' = [SubSeq(stack, 1, Len(stack) - 1)
                   EXCEPT ![Len(stack) - 1].ip = @ + 1]
    /\ UNCHANGED <<pc, call, self, local, c, channels, AudioChannel_cls,
                   ImageChannel_cls, loads, decodes, result, exc>>

\* the call returns to the client : the instance, or the list of channels
Return ==
    /\ At("return")
    /\ Len(stack) = 1
    /\ pc' = "returned"
    /\ result' = IF Top.fn = "__init__" THEN <<self>> ELSE channels
    /\ UNCHANGED <<call, stack, self, local, c, channels, AudioChannel_cls,
                   ImageChannel_cls, loads, decodes, exc>>

Next ==
    \/ Call
    \/ Decode
    \/ SuperInit
    \/ SetAttr
    \/ SetClsAttr
    \/ For
    \/ New
    \/ Make
    \/ AppendChannel
    \/ EndFor
    \/ ReturnToCaller
    \/ Return

Spec == Init /\ [][Next]_vars

\* ------------------------------------------------------------------
\*  Vocabulary of the properties
\* ------------------------------------------------------------------
Returned(cls) == pc = "returned" /\ call.cls = cls

Ended(cls) == pc \in {"returned", "raised"} /\ call.cls = cls

\* the shared holder of the decoded buffer of a channel class
Holder(cls) ==
    IF cls = "AudioChannel" THEN AudioChannel_cls["_audio"]
    ELSE ImageChannel_cls["_image"]

\* from_file is between the head and the end of its loop
Building ==
    /\ pc = "run"
    /\ call.fn = "from_file"
    /\ stack[1].ip > 3
    /\ stack[1].ip < Len(Program(call.cls, "from_file")) - 1

\* ------------------------------------------------------------------
\*  C1
\* ------------------------------------------------------------------
\* C1: for AudioChannel.from_file and ImageChannel.from_file the class-level
\* holder of the decoded buffer is filled while the channel instances are
\* being built and is None once from_file has returned.
C1_HolderCleared ==
    /\ Building => ~IsNone(Holder(call.cls))
    /\ (pc = "returned" /\ call.fn = "from_file") => IsNone(Holder(call.cls))

\* ------------------------------------------------------------------
\*  C2
\* ------------------------------------------------------------------
\* C2: MonoAudio on a source with other than 1 or 2 channels, and GrayImage
\* on a source with other than 1 to 4 planes, fail with the error kind
\* UnsupportedChannelLayout.
C2_UnsupportedChannelLayout ==
    /\ (Ended("MonoAudio") /\ Len(call.file.channels) \notin {1, 2})
          => exc = "UnsupportedChannelLayout"
    /\ (Ended("GrayImage") /\ Len(call.file.planes) \notin {1, 2, 3, 4})
          => exc = "UnsupportedChannelLayout"

\* ------------------------------------------------------------------
\*  C3
\* ------------------------------------------------------------------
\* C3: AudioChannel.from_file on a source with K channels returns K
\* generators in channel order; the i-th has id i, the source's bits per
\* sample as sampres and original channel i as its signal; load() has been
\* called once.
C3_SplitRoundTrip ==
    /\ ~(pc = "raised" /\ call.cls = "AudioChannel")
    /\ Returned("AudioChannel") =>
          /\ Len(result) = Len(call.file.channels)
          /\ loads = 1
          /\ \A i \in 1..Len(result) :
                /\ result[i].cls = "AudioChannel"
                /\ result[i].dict["_id"] = Some(i - 1)
                /\ result[i].dict["_bps"] = Some(call.file.bps)
                /\ result[i].signal = Some(call.file.channels[i])

C3_Witness ==
    /\ Returned("AudioChannel")
    /\ Len(call.file.channels) = 3
    /\ Len(call.file.channels[1]) > 0
    /\ Len(result) = 3

\* ------------------------------------------------------------------
\*  C4
\* ------------------------------------------------------------------
OnePixelRGB(r, g, b) ==
    /\ Returned("GrayImage")
    /\ Len(call.file.planes) = 3
    /\ call.file.planes = <<<<<<r>>>>, <<<<g>>>>, <<<<b>>>>>>

\* C4 as stated: GrayImage on the single RGB pixel (10, 20, 30) yields 18.
C4_Luma18 == OnePixelRGB(10, 20, 30) => result[1].signal = Some(<<<<18>>>>)

\* C4: GrayImage on the single RGB pixel (10, 20, 30) yields
\* round(0.2126*10 + 0.7152*20 + 0.0722*30) = round(18.596) = 19.
C4_Luma19 == OnePixelRGB(10, 20, 30) => result[1].signal = Some(<<<<19>>>>)

C4_Witness == OnePixelRGB(10, 20, 30) /\ ~IsNone(result[1].signal)

\* ------------------------------------------------------------------
\*  C5
\* ------------------------------------------------------------------
\* 10000 * (0.2126 R + 0.7152 G + 0.0722 B)
Weighted(r, g, b) == 2126 * r + 7152 * g + 722 * b

\* y is the integer nearest to num / den, an exact half going to the even one
IsRounded(y, num, den) ==
    /\ 2 * (y * den - num) <= den
    /\ 2 * (num - y * den) <= den
    /\ (2 * (y * den - num) = den \/ 2 * (num - y * den) = den) => y % 2 = 0

\* C5: with 1 or 2 planes the signal of GrayImage is plane 0; with 3 or 4
\* planes every pixel is round(0.2126 R + 0.7152 G + 0.0722 B) of planes 0,
\* 1, 2 at that pixel; a further (alpha) plane has no part in the result.
C5_PlaneSelection ==
    Returned("GrayImage") =>
        LET planes == call.file.planes
            sig == Val(result[1].signal)
        IN  /\ Len(planes) \in {1, 2} => sig = planes[1]
            /\ Len(planes) \in {3, 4} =>
                  /\ Len(sig) = Len(planes[1])
                  /\ \A n \in 1..Len(sig) :
                        /\ Len(sig[n]) = Len(planes[1][n])
                        /\ \A m \in 1..Len(sig[n]) :
                              IsRounded(sig[n][m],
                                        Weighted(planes[1][n][m],
                                                 planes[2][n][m],
                                                 planes[3][n][m]),
                                        10000)

C5_Witness ==
    /\ Returned("GrayImage")
    /\ Len(call.file.planes) = 4
    /\ Len(Val(result[1].signal)[1]) = 2

\* ------------------------------------------------------------------
\*  C6
\* ------------------------------------------------------------------
\* C6: with one channel the signal of MonoAudio is that channel; with two,
\* sample n is (left[n] + right[n]) / 2 rounded to the nearest integer, an
\* exact half going to the even integer ((4, 5) gives 4, (5, 6) gives 6),
\* and the signal is as long as the channels.
C6_Downmix ==
    Returned("MonoAudio") =>
        LET chans == call.file.channels
            sig == Val(result[1].signal)
        IN  /\ Len(chans) = 1 => sig = chans[1]
            /\ Len(chans) = 2 =>
                  /\ Len(sig) = Len(chans[1])
                  /\ \A n \in 1..Len(sig) :
                        LET l == chans[1][n]
                            r == chans[2][n]
                        IN  /\ IsRounded(sig[n], l + r, 2)
                            /\ (l = 4 /\ r = 5) => sig[n] = 4
                            /\ (l = 5 /\ r = 6) => sig[n] = 6

C6_Witness ==
    /\ Returned("MonoAudio")
    /\ call.file.channels = <<<<4, 5>>, <<5, 6>>>>
    /\ result[1].signal = Some(<<4, 6>>)

\* ------------------------------------------------------------------
\*  C7
\* ------------------------------------------------------------------
\* C7: Noise1D and Noise2D with a distribution key outside the table fail
\* with UnknownDistribution on every domain, the empty one included, and
\* produce no signal.
C7_UnknownDistribution ==
    (\E cls \in {"Noise1D", "Noise2D"} : Ended(cls) /\ call.args.pdf \notin dist)
        => (exc = "UnknownDistribution" /\ IsNone(self.signal))

\* ------------------------------------------------------------------
\*  C8
\* ------------------------------------------------------------------
\* C8: a constructed MonoAudio or GrayImage no longer refers to the decoded
\* source and holds the derived signal; sampres of MonoAudio still reads the
\* source's bits per sample.
C8_SourceReleased ==
    /\ Returned("MonoAudio") =>
          /\ IsNone(result[1].dict["_audio"])
          /\ ~IsNone(result[1].signal)
          /\ result[1].dict["_bps"] = Some(call.file.bps)
    /\ Returned("GrayImage") =>
          /\ IsNone(result[1].dict["_image"])
          /\ ~IsNone(result[1].signal)

C8_Witness ==
    /\ Returned("MonoAudio")
    /\ Len(call.file.channels) = 2
    /\ call.file.bps = 16
    /\ IsNone(result[1].dict["_audio"])

\* ------------------------------------------------------------------
\*  C9
\* ------------------------------------------------------------------
\* C9: Pulse2D and Gaussian2D apply component 0 of their parameter tuples to
\* component 0 of a cell's coordinate pair and component 1 to component 1:
\* at the cell whose coordinate pair is t, Gaussian2D(u = t) attains k and
\* Pulse2D(xo = t, w) with positive widths yields a.
C9_SameAxisPairing ==
    /\ Returned("Pulse2D") =>
          \A n \in 1..Len(call.x) : \A m \in 1..Len(call.x[n]) :
              call.x[n][m] = call.args.xo
                  => Val(result[1].signal)[n][m] = call.args.a
    /\ Returned("Gaussian2D") =>
          \A n \in 1..Len(call.x) : \A m \in 1..Len(call.x[n]) :
              call.x[n][m] = call.args.u
                  => /\ Val(result[1].signal)[n][m].k = call.args.k
                     /\ Val(result[1].signal)[n][m].num = 0

\* ------------------------------------------------------------------
\*  C10
\* ------------------------------------------------------------------
\* make() ran at most once on the instance, and when it ran every attribute
\* the evaluator reads had been assigned
MadeOnceWhenReady(inst) == inst.makes <= 1 /\ (inst.makes = 1 => inst.ready)

\* C10: on every construction path make() is triggered exactly once per
\* instance, and only after every parameter the evaluator reads has been
\* assigned (for split channels: after the holder is filled and the id set).
C10_MakeOnceAfterParams ==
    /\ MadeOnceWhenReady(self)
    /\ \A i \in 1..Len(channels) : MadeOnceWhenReady(channels[i])
    /\ pc = "returned" =>
          \A i \in 1..Len(result) : result[i].makes = 1 /\ result[i].ready
    /\ exc \notin {"AttributeError", "TypeError"}

C10_Witness ==
    /\ Returned("ImageChannel")
    /\ Len(result) = 4
    /\ \A i \in 1..4 : result[i].makes = 1

====
